---- MODULE Spec2Model ----
(***************************************************************************)
(* A model of lektor/themesystem.py: the theme registry held by an         *)
(* Environment (env.themes, env.theme_ids_by_class), the ThemeController   *)
(* (instanciate_theme, iter_themes, emit), the Theme handle with its weak  *)
(* back-reference to the Environment, the per-build-context config cache   *)
(* of Theme.get_config, and theme discovery (load_themes,                  *)
(* initialize_themes).                                                     *)
(*                                                                         *)
(* Strings are sequences of one-character strings, so that str.lower,      *)
(* str.replace and concatenation are computed and not assumed.  A Python   *)
(* object's identity is an allocation number.                              *)
(***************************************************************************)
EXTENDS Integers, Sequences, FiniteSets, TLC

VARIABLES
    alive,               \* env -> whether the Environment object still exists
    themes,              \* env -> env.themes: theme id -> Theme instance
    theme_ids_by_class,  \* env -> env.theme_ids_by_class: class -> theme id
    ctxStack,            \* the stack of build contexts; get_ctx() is its top
    nextCtx,             \* number of build contexts created so far
    nextCfg,             \* number of IniFile objects built so far
    cfgLog,              \* history: every value Theme.get_config returned
    ret                  \* the outcome of the last operation

vars == <<alive, themes, theme_ids_by_class, ctxStack, nextCtx, nextCfg, cfgLog, ret>>

(***************************************************************************)
(* Bounds of the model.                                                    *)
(***************************************************************************)
MaxCtx == 2      \* build contexts created in one behaviour
MaxCfg == 2      \* IniFile objects built in one behaviour
MaxEps == 2      \* entry points one discovery enumerates

(***************************************************************************)
(* Python values.                                                          *)
(***************************************************************************)
None == <<"None">>

Envs == {"e1", "e2"}

\* Exceptions, named by the statement that raises them.
CtxUnavailable    == "RuntimeError: Context is unavailable and no environment was passed"
ThemeNotFound     == "LookupError: Theme not found"
EnvWentAway       == "RuntimeError: Environment went away"
AlreadyRegistered == "RuntimeError: Theme is already registered"
MismatchingName   == "RuntimeError: Mismatching entry point name"
DistNotFound      == "DistributionNotFound"
HandlerFailed     == "exception raised by a handler"
CtorFailed        == "exception raised by a theme class's constructor"

(***************************************************************************)
(* Strings.                                                                *)
(***************************************************************************)
\* str.lower on one character of the alphabet in use.
LowerChar(c) ==
    CASE c = "A" -> "a"
      [] c = "B" -> "b"
      [] c = "L" -> "l"
      [] OTHER -> c

lower_not_applied(s) == s

\* str.lower
lower(s) == [i \in 1..Len(s) |-> LowerChar(s[i])]

replace_first_only(s, old, new) ==
    [i \in 1..Len(s) |-> IF s[i] = old /\ (\A j \in 1..(i - 1) : s[j] # old) THEN new ELSE s[i]]

\* str.replace(old, new) for one-character old and new
replace(s, old, new) == [i \in 1..Len(s) |-> IF s[i] = old THEN new ELSE s[i]]

\* The literals of the module.
LektorDash == <<"l", "e", "k", "t", "o", "r", "-">>
OnUnderscore == <<"o", "n", "_">>
DotIni == <<".", "i", "n", "i">>
ConfigsNamespace == "lektor.themesystem:configs"

(***************************************************************************)
(* The themes in use: ids, and Theme subclasses with their on_* handlers.  *)
(***************************************************************************)
ThemeIds == { <<"A">>, <<"a", "-", "b">> }

on_setup_env == <<"o", "n", "_", "s", "e", "t", "u", "p", "_", "e", "n", "v">>
on_a_b_x     == <<"o", "n", "_", "a", "_", "b", "_", "x">>

\* A class is named by its import name; a one-element tuple keeps it
\* comparable with (and different from) every theme id, as dictionary keys are.
K1 == <<"themes.k1:K1">>
K2 == <<"themes.k2:K2">>
K3 == <<"themes.k3:K3">>
Classes == {K1, K2, K3}

\* A class whose constructor raises.
K4 == <<"themes.k4:K4">>

\* Whether theme_cls(env, theme_id) raises.
CtorRaises(cls) == cls = K4

\* The on_* attributes of each class: what calling the handler does.
ClassAttrs(cls) ==
    CASE cls = K1 -> (on_setup_env :> [raises |-> FALSE, value |-> "k1-setup"])
                     @@ (on_a_b_x :> [raises |-> FALSE, value |-> "k1-abx"])
      [] cls = K2 -> << >>
      [] cls = K3 -> (on_setup_env :> [raises |-> TRUE, value |-> "k3-boom"])
      [] cls = K4 -> << >>

\* getattr(theme, funcname, None) is not None
HasHandler(theme, funcname) == funcname \in DOMAIN ClassAttrs(theme.cls)

\* Events passed to ThemeController.emit.
SetupEnv == <<"s", "e", "t", "u", "p", "-", "e", "n", "v">>

Events == { SetupEnv, <<"a", "-", "b", "-", "x">> }

(***************************************************************************)
(* Helpers on functions used as dictionaries.                              *)
(***************************************************************************)
EmptyDict == << >>

\* d[k] = v
DictSet(d, k, v) == (k :> v) @@ d

\* d.get(k, default)
DictGet(d, k, default) == IF k \in DOMAIN d THEN d[k] ELSE default

\* Every order in which the keys of a dictionary can be iterated.
Orders(S) == { s \in [1..Cardinality(S) -> S] : \A i, j \in 1..Cardinality(S) : s[i] = s[j] => i = j }

\* The outcome recorded for an operation: the exception raised or "ok", the
\* value returned, and the trace of the calls it made to code outside this
\* module (<<"load", name>>: an entry point's loader, <<"new", id>>: a theme
\* class's constructor, which returned and whose theme was registered,
\* <<"call", id>>: a theme's handler).
Result(op, who, arg, status, value, trace) ==
    [op |-> op, who |-> who, arg |-> arg, status |-> status, value |-> value, trace |-> trace]

(***************************************************************************)
(* Build contexts (lektor.context): a stack; get_ctx() returns the top.    *)
(***************************************************************************)
\* What get_ctx() returns without an active context (Python's None), kept a
\* record so that it compares with a context.
NoCtx == [cid |-> 0, env |-> "None", cache |-> << >>, deps |-> {}]

get_ctx == IF ctxStack = << >> THEN NoCtx ELSE ctxStack[Len(ctxStack)]

HasCtx == ctxStack # << >>

Init ==
    /\ alive = [e \in Envs |-> TRUE]
    /\ themes = [e \in Envs |-> EmptyDict]
    /\ theme_ids_by_class = [e \in Envs |-> EmptyDict]
    /\ ctxStack = << >>
    /\ nextCtx = 0
    /\ nextCfg = 0
    /\ cfgLog = {}
    /\ ret = Result("init", None, None, "ok", None, << >>)

\* Context.push(): a new build context of env e becomes the active one.
PushCtx(e) ==
    /\ alive[e]
    /\ nextCtx < MaxCtx
    /\ nextCtx' = nextCtx + 1
    /\ ctxStack' = Append(ctxStack, [cid |-> nextCtx + 1, env |-> e,
                                     cache |-> EmptyDict, deps |-> {}])
    /\ ret' = Result("push", e, None, "ok", None, << >>)
    /\ UNCHANGED <<alive, themes, theme_ids_by_class, nextCfg, cfgLog>>

\* Context.pop(): the active build context ends, its cache with it.
PopCtx ==
    /\ HasCtx
    /\ ctxStack' = SubSeq(ctxStack, 1, Len(ctxStack) - 1)
    /\ ret' = Result("pop", None, None, "ok", None, << >>)
    /\ UNCHANGED <<alive, themes, theme_ids_by_class, nextCtx, nextCfg, cfgLog>>

\* The Environment is garbage collected: every weakref to it now returns
\* None.  A build context holds a strong reference to its env, so the env of
\* a context on the stack cannot go away.
DestroyEnv(e) ==
    /\ alive[e]
    /\ \A i \in 1..Len(ctxStack) : ctxStack[i].env # e
    /\ alive' = [alive EXCEPT ![e] = FALSE]
    /\ ret' = Result("destroy", e, None, "ok", None, << >>)
    /\ UNCHANGED <<themes, theme_ids_by_class, ctxStack, nextCtx, nextCfg, cfgLog>>

(***************************************************************************)
(* ThemeController                                                         *)
(***************************************************************************)
NewTheme_wrong_class(cls, e, id) == [env |-> e, id |-> id, cls |-> K2]

\* Theme.__init__(env, id) on class cls
NewTheme(cls, e, id) == [env |-> e, id |-> id, cls |-> cls]

RegisterTheme_class_only(reg, e, theme_id, theme_cls) ==
    [themes |-> reg.themes,
     theme_ids_by_class |-> DictSet(reg.theme_ids_by_class, theme_cls, theme_id)]

\* The registry after the two assignments of instanciate_theme.
RegisterTheme(reg, e, theme_id, theme_cls) ==
    [themes |-> DictSet(reg.themes, theme_id, NewTheme(theme_cls, e, theme_id)),
     theme_ids_by_class |-> DictSet(reg.theme_ids_by_class, theme_cls, theme_id)]

instanciate_theme_overwrites(reg, e, theme_id, theme_cls) ==
    IF ~alive[e]
    THEN [status |-> EnvWentAway, reg |-> reg]
    ELSE IF CtorRaises(theme_cls)
    THEN [status |-> CtorFailed, reg |-> reg]
    ELSE [status |-> "ok", reg |-> RegisterTheme(reg, e, theme_id, theme_cls)]

instanciate_theme_checks_late(reg, e, theme_id, theme_cls) ==
    IF ~alive[e]
    THEN [status |-> EnvWentAway, reg |-> reg]
    ELSE IF theme_id \in DOMAIN reg.themes
    THEN [status |-> AlreadyRegistered,
          reg |-> [reg EXCEPT !.theme_ids_by_class = DictSet(@, theme_cls, theme_id)]]
    ELSE IF CtorRaises(theme_cls)
    THEN [status |-> CtorFailed, reg |-> reg]
    ELSE [status |-> "ok", reg |-> RegisterTheme(reg, e, theme_id, theme_cls)]

\* ThemeController.instanciate_theme on a registry value: the outcome and
\* the registry it leaves.
instanciate_theme(reg, e, theme_id, theme_cls) ==
    IF ~alive[e]
    THEN [status |-> EnvWentAway, reg |-> reg]
    ELSE IF theme_id \in DOMAIN reg.themes
    THEN [status |-> AlreadyRegistered, reg |-> reg]
    ELSE IF CtorRaises(theme_cls)
    THEN [status |-> CtorFailed, reg |-> reg]
    ELSE [status |-> "ok", reg |-> RegisterTheme(reg, e, theme_id, theme_cls)]

Registry(e) == [themes |-> themes[e], theme_ids_by_class |-> theme_ids_by_class[e]]

InstanciateTheme(e, theme_id, theme_cls) ==
    LET out == instanciate_theme(Registry(e), e, theme_id, theme_cls) IN
    /\ themes' = [themes EXCEPT ![e] = out.reg.themes]
    /\ theme_ids_by_class' = [theme_ids_by_class EXCEPT ![e] = out.reg.theme_ids_by_class]
    /\ ret' = Result("instanciate_theme", e, <<theme_id, theme_cls>>, out.status, None, << >>)
    /\ UNCHANGED <<alive, ctxStack, nextCtx, nextCfg, cfgLog>>

RECURSIVE EmitLoop_isolating(_, _, _, _, _, _)
EmitLoop_isolating(ths, order, funcname, i, rv, trace) ==
    IF i > Len(order)
    THEN [status |-> "ok", value |-> rv, trace |-> trace]
    ELSE LET theme == ths[order[i]] IN
         IF ~HasHandler(theme, funcname)
         THEN EmitLoop_isolating(ths, order, funcname, i + 1, rv, trace)
         ELSE LET handler == ClassAttrs(theme.cls)[funcname] IN
              IF handler.raises
              THEN EmitLoop_isolating(ths, order, funcname, i + 1, rv,
                                      Append(trace, <<"call", theme.id>>))
              ELSE EmitLoop_isolating(ths, order, funcname, i + 1,
                                      DictSet(rv, theme.id, handler.value),
                                      Append(trace, <<"call", theme.id>>))

\* The loop of ThemeController.emit over the themes in iteration order
\* `order`, from position i, with rv and the handler calls made so far.
RECURSIVE EmitLoop(_, _, _, _, _, _)
EmitLoop(ths, order, funcname, i, rv, trace) ==
    IF i > Len(order)
    THEN [status |-> "ok", value |-> rv, trace |-> trace]
    ELSE LET theme == ths[order[i]] IN
         IF ~HasHandler(theme, funcname)
         THEN EmitLoop(ths, order, funcname, i + 1, rv, trace)
         ELSE LET handler == ClassAttrs(theme.cls)[funcname] IN
              IF handler.raises
              THEN [status |-> HandlerFailed, value |-> None,
                    trace |-> Append(trace, <<"call", theme.id>>)]
              ELSE EmitLoop(ths, order, funcname, i + 1,
                            DictSet(rv, theme.id, handler.value),
                            Append(trace, <<"call", theme.id>>))

\* funcname = 'on_' + event.replace('-', '_')
HandlerName(event) == OnUnderscore \o replace(event, "-", "_")

\* ThemeController.emit on the themes dictionary ths, iterated in `order`.
emit(ths, order, event) == EmitLoop(ths, order, HandlerName(event), 1, EmptyDict, << >>)

ControllerEmit(e, event) ==
    /\ IF ~alive[e]
       THEN ret' = Result("emit", e, <<event, << >> >>, EnvWentAway, None, << >>)
       ELSE \E order \in Orders(DOMAIN themes[e]) :
                LET out == emit(themes[e], order, event) IN
                ret' = Result("emit", e, <<event, order>>, out.status, out.value, out.trace)
    /\ UNCHANGED <<alive, themes, theme_ids_by_class, ctxStack, nextCtx, nextCfg, cfgLog>>

(***************************************************************************)
(* get_theme                                                               *)
(***************************************************************************)
LookupEnv_prefers_ctx(env) == IF HasCtx THEN get_ctx.env ELSE env[1]

\* The environment get_theme consults: the one passed, else the context's.
LookupEnv(env) == IF env = None THEN get_ctx.env ELSE env[1]

\* get_theme(theme_id_or_class, env): env is <<an Environment>> or None.
get_theme(theme_id_or_class, env) ==
    IF env = None /\ ~HasCtx
    THEN [status |-> CtxUnavailable, value |-> None, env |-> None]
    ELSE LET e == LookupEnv(env)
             theme_id == DictGet(theme_ids_by_class[e], theme_id_or_class, theme_id_or_class)
         IN IF theme_id \in DOMAIN themes[e]
            THEN [status |-> "ok", value |-> themes[e][theme_id], env |-> <<e>>]
            ELSE [status |-> ThemeNotFound, value |-> None, env |-> <<e>>]

\* The env argument: None, or an Environment the caller holds (so it exists).
EnvArgs == {None} \cup { <<e>> : e \in {x \in Envs : alive[x]} }

GetTheme(theme_id_or_class, env) ==
    LET out == get_theme(theme_id_or_class, env) IN
    /\ ret' = Result("get_theme", env, theme_id_or_class, out.status, out.value, << >>)
    /\ UNCHANGED <<alive, themes, theme_ids_by_class, ctxStack, nextCtx, nextCfg, cfgLog>>

(***************************************************************************)
(* Theme: the operations of a handle.  A handle stays usable by whoever    *)
(* holds it after its Environment is gone; self.env then raises.           *)
(***************************************************************************)
\* Every Theme instance created so far.
AllThemes == UNION { { themes[e][k] : k \in DOMAIN themes[e] } : e \in Envs }

\* Theme.env: the weak reference resolves, or 'Environment went away'.
EnvGone(self) == ~alive[self.env]

\* pkg_resources.get_distribution: the installed distributions, by key.
InstalledDists == { <<"l", "e", "k", "t", "o", "r", "-", "a">> }

\* Theme.version
version(self) ==
    IF lower(LektorDash \o self.id) \in InstalledDists
    THEN [status |-> "ok", value |-> <<"version of", LektorDash \o self.id>>]
    ELSE [status |-> DistNotFound, value |-> None]

\* Whether the module defining the class lies under the package cache path.
InPackageCache(cls) == cls = K2

\* Theme.path
path(self) ==
    IF EnvGone(self)
    THEN [status |-> EnvWentAway, value |-> None]
    ELSE IF ~InPackageCache(self.cls)
    THEN [status |-> "ok", value |-> <<"directory of", self.cls>>]
    ELSE [status |-> "ok", value |-> None]

\* Theme.import_name
import_name(self) == [status |-> "ok", value |-> self.cls]

\* Theme.get_lektor_config
get_lektor_config(self) ==
    IF HasCtx
    THEN [status |-> "ok", value |-> <<"ctx.pad.db.config", get_ctx.cid>>]
    ELSE IF EnvGone(self)
    THEN [status |-> EnvWentAway, value |-> None]
    ELSE [status |-> "ok", value |-> <<"env.load_config()", self.env>>]

\* Theme.config_filename
config_filename(self) ==
    IF EnvGone(self)
    THEN [status |-> EnvWentAway, value |-> None]
    ELSE [status |-> "ok", value |-> <<"root_path of " \o self.env, "configs", self.id \o DotIni>>]

\* Theme.to_json: the dictionary display evaluates its values in order.
to_json(self) ==
    IF version(self).status # "ok"
    THEN [status |-> version(self).status, value |-> None]
    ELSE IF path(self).status # "ok"
    THEN [status |-> path(self).status, value |-> None]
    ELSE [status |-> "ok",
          value |-> [id |-> self.id, name |-> "Your Theme Name",
                     version |-> version(self).value,
                     description |-> "Description goes here",
                     path |-> path(self).value,
                     import_name |-> import_name(self).value]]

Theme_emit_self_only(self, order, event) ==
    IF EnvGone(self)
    THEN [status |-> EnvWentAway, value |-> None, trace |-> << >>]
    ELSE emit(themes[self.env], <<self.id>>, self.id \o <<"-">> \o event)

\* Theme.emit
Theme_emit(self, order, event) ==
    IF EnvGone(self)
    THEN [status |-> EnvWentAway, value |-> None, trace |-> << >>]
    ELSE emit(themes[self.env], order, self.id \o <<"-">> \o event)

\* Events passed to Theme.emit.
ThemeEvents == { <<"x">>, <<"e", "n", "v">> }

Observe(op, self, out) ==
    /\ ret' = Result(op, self, None, out.status, out.value, << >>)
    /\ UNCHANGED <<alive, themes, theme_ids_by_class, ctxStack, nextCtx, nextCfg, cfgLog>>

Version(self) == Observe("version", self, version(self))
Path(self) == Observe("path", self, path(self))
ImportName(self) == Observe("import_name", self, import_name(self))
GetLektorConfig(self) == Observe("get_lektor_config", self, get_lektor_config(self))
ToJson(self) == Observe("to_json", self, to_json(self))

ThemeEmit(self, event) ==
    /\ \E order \in Orders(DOMAIN themes[self.env]) :
           LET out == Theme_emit(self, order, event) IN
           ret' = Result("Theme.emit", self, <<event, order>>, out.status, out.value, out.trace)
    /\ UNCHANGED <<alive, themes, theme_ids_by_class, ctxStack, nextCtx, nextCfg, cfgLog>>

(***************************************************************************)
(* Theme.get_config                                                        *)
(***************************************************************************)
\* IniFile(filename): a new object.
IniFile(filename) == [oid |-> nextCfg + 1, filename |-> filename]

WithNamespace_reset(cache) == DictSet(cache, ConfigsNamespace, EmptyDict)

Caching_ignores_fresh(ctx, fresh) == ctx # NoCtx

\* ctx is not None and not fresh
Caching(ctx, fresh) == ctx # NoCtx /\ ~fresh

\* ctx.cache.setdefault(__name__ + ':configs', {})
WithNamespace(cache) ==
    IF ConfigsNamespace \in DOMAIN cache THEN cache ELSE DictSet(cache, ConfigsNamespace, EmptyDict)

RecordDependency_dropped(ctx, filename) == ctx

\* if ctx is not None: ctx.record_dependency(filename)
RecordDependency(ctx, filename) ==
    IF ctx = NoCtx THEN ctx ELSE [ctx EXCEPT !.deps = @ \cup {filename}]

CacheKey_shared(self) == <<"*">>

\* The key of a theme's entry in the namespace's cache: self.id
CacheKey(self) == self.id

\* Theme.get_config(fresh) on the active context ctx (NoCtx without one):
\* the outcome, the context as the call leaves it, and whether an IniFile
\* was built.
get_config(self, fresh, ctx) ==
    LET fn == config_filename(self)
        caching == Caching(ctx, fresh)
        cache1 == IF caching THEN WithNamespace(ctx.cache) ELSE EmptyDict
        hit == caching /\ CacheKey(self) \in DOMAIN cache1[ConfigsNamespace]
        ctx1 == IF caching THEN [ctx EXCEPT !.cache = cache1] ELSE ctx
    IN IF hit
       THEN IF fn.status # "ok"
            THEN [status |-> fn.status, value |-> None, ctx |-> ctx1, built |-> FALSE]
            ELSE [status |-> "ok", value |-> cache1[ConfigsNamespace][CacheKey(self)],
                  ctx |-> RecordDependency(ctx1, fn.value), built |-> FALSE]
       ELSE IF fn.status # "ok"
            THEN [status |-> fn.status, value |-> None, ctx |-> ctx1, built |-> FALSE]
            ELSE LET cfg == IniFile(fn.value) IN
                 [status |-> "ok", value |-> cfg,
                  ctx |-> RecordDependency(
                              IF caching
                              THEN [ctx1 EXCEPT !.cache[ConfigsNamespace] = DictSet(@, CacheKey(self), cfg)]
                              ELSE ctx1,
                              fn.value),
                  built |-> TRUE]

\* The id of the active build context, 0 without one.
ActiveCid == get_ctx.cid

GetConfig_shared_cache(self, fresh) ==
    LET out == get_config(self, fresh, get_ctx) IN
    /\ out.built => nextCfg < MaxCfg
    /\ nextCfg' = IF out.built THEN nextCfg + 1 ELSE nextCfg
    /\ ctxStack' = [i \in 1..Len(ctxStack) |->
                        IF i = Len(ctxStack) THEN out.ctx
                        ELSE [ctxStack[i] EXCEPT !.cache = out.ctx.cache]]
    /\ cfgLog' = IF out.status = "ok"
                 THEN cfgLog \cup {[cid |-> ActiveCid, theme |-> self, fresh |-> fresh,
                                    cfg |-> out.value]}
                 ELSE cfgLog
    /\ ret' = Result("get_config", self, fresh, out.status, out.value, << >>)
    /\ UNCHANGED <<alive, themes, theme_ids_by_class, nextCtx>>

GetConfig(self, fresh) ==
    LET out == get_config(self, fresh, get_ctx) IN
    /\ out.built => nextCfg < MaxCfg
    /\ nextCfg' = IF out.built THEN nextCfg + 1 ELSE nextCfg
    /\ ctxStack' = IF HasCtx THEN [ctxStack EXCEPT ![Len(ctxStack)] = out.ctx] ELSE ctxStack
    /\ cfgLog' = IF out.status = "ok"
                 THEN cfgLog \cup {[cid |-> ActiveCid, theme |-> self, fresh |-> fresh,
                                    cfg |-> out.value]}
                 ELSE cfgLog
    /\ ret' = Result("get_config", self, fresh, out.status, out.value, << >>)
    /\ UNCHANGED <<alive, themes, theme_ids_by_class, nextCtx>>

(***************************************************************************)
(* Discovery: load_themes and initialize_themes                            *)
(***************************************************************************)
\* What pkg_resources.iter_entry_points('lektor.themes') can yield: name,
\* dist.project_name, and the class load() returns.
EntryPoint(name, project_name, cls) == [name |-> name, project_name |-> project_name, cls |-> cls]

Lektor_a   == LektorDash \o <<"a">>
Lektor_a_b == <<"L", "e", "k", "t", "o", "r", "-", "a", "-", "b">>
Weird_pkg  == <<"w", "e", "i", "r", "d">>

EntryPoints ==
    { EntryPoint(<<"A">>, Lektor_a, K1),
      EntryPoint(<<"a", "-", "b">>, Lektor_a_b, K2),
      EntryPoint(<<"a", "-", "b">>, Lektor_a_b, K4),
      EntryPoint(<<"A">>, Weird_pkg, K2),
      EntryPoint(<<"a", "-", "b">>, Lektor_a, K1) }

EntryPointLists == UNION { [1..n -> EntryPoints] : n \in 0..MaxEps }

\* The test of load_themes on one entry point.
NameMatches(ep) == LektorDash \o lower(ep.name) = lower(ep.project_name)

\* The loop of load_themes over the entry points eps from position i.
RECURSIVE LoadLoop(_, _, _, _)
LoadLoop(eps, i, rv, trace) ==
    IF i > Len(eps)
    THEN [status |-> "ok", value |-> rv, trace |-> trace]
    ELSE IF ~NameMatches(eps[i])
    THEN [status |-> MismatchingName, value |-> None, trace |-> trace]
    ELSE LoadLoop(eps, i + 1, DictSet(rv, eps[i].name, eps[i].cls),
                  Append(trace, <<"load", eps[i].name>>))

load_themes(eps) == LoadLoop(eps, 1, EmptyDict, << >>)

\* The loop of initialize_themes over the (theme_id, theme_cls) items.
RECURSIVE InstLoop(_, _, _, _, _, _)
InstLoop(e, found, order, i, reg, trace) ==
    IF i > Len(order)
    THEN [status |-> "ok", reg |-> reg, trace |-> trace]
    ELSE LET out == instanciate_theme(reg, e, order[i], found[order[i]]) IN
         IF out.status # "ok"
         THEN [status |-> out.status, reg |-> out.reg, trace |-> trace]
         ELSE InstLoop(e, found, order, i + 1, out.reg, Append(trace, <<"new", order[i]>>))

initialize_themes_emits_first(e, eps, order, order2) ==
    LET loaded == load_themes(eps) IN
    IF loaded.status # "ok"
    THEN [status |-> loaded.status, value |-> None, reg |-> Registry(e), trace |-> loaded.trace]
    ELSE LET old == SelectSeq(order2, LAMBDA k : k \in DOMAIN themes[e])
             out == emit(themes[e], old, SetupEnv)
         IN IF out.status # "ok"
            THEN [status |-> out.status, value |-> None, reg |-> Registry(e),
                  trace |-> loaded.trace \o out.trace]
            ELSE LET inst == InstLoop(e, loaded.value, order, 1, Registry(e),
                                      loaded.trace \o out.trace) IN
                 [status |-> inst.status, value |-> IF inst.status = "ok" THEN out.value ELSE None,
                  reg |-> inst.reg, trace |-> inst.trace]

\* initialize_themes(env): items iterated in `order`, themes in `order2`.
initialize_themes(e, eps, order, order2) ==
    LET loaded == load_themes(eps) IN
    IF loaded.status # "ok"
    THEN [status |-> loaded.status, value |-> None, reg |-> Registry(e), trace |-> loaded.trace]
    ELSE LET inst == InstLoop(e, loaded.value, order, 1, Registry(e), loaded.trace) IN
         IF inst.status # "ok"
         THEN [status |-> inst.status, value |-> None, reg |-> inst.reg, trace |-> inst.trace]
         ELSE LET out == emit(inst.reg.themes, order2, SetupEnv) IN
              [status |-> out.status, value |-> out.value, reg |-> inst.reg,
               trace |-> inst.trace \o out.trace]

\* The keys load_themes returns for eps (none when it raises).
Discovered(eps) == IF load_themes(eps).status = "ok" THEN DOMAIN load_themes(eps).value ELSE {}

LoadThemes(eps) ==
    LET out == load_themes(eps) IN
    /\ ret' = Result("load_themes", None, eps, out.status, out.value, out.trace)
    /\ UNCHANGED <<alive, themes, theme_ids_by_class, ctxStack, nextCtx, nextCfg, cfgLog>>

InitializeThemes(e, eps) ==
    /\ alive[e]
    /\ \E order \in Orders(Discovered(eps)) :
       \E order2 \in Orders(DOMAIN themes[e] \cup Discovered(eps)) :
           LET out == initialize_themes(e, eps, order, order2) IN
           /\ themes' = [themes EXCEPT ![e] = out.reg.themes]
           /\ theme_ids_by_class' = [theme_ids_by_class EXCEPT ![e] = out.reg.theme_ids_by_class]
           /\ ret' = Result("initialize_themes", e, <<eps, order, order2>>, out.status, out.value, out.trace)
    /\ UNCHANGED <<alive, ctxStack, nextCtx, nextCfg, cfgLog>>

(***************************************************************************)
(* Specifications.  The operations that only return a value leave the      *)
(* state of the program as it is, so each specification takes the          *)
(* operations that change the state its claims are about and the           *)
(* operations observed.                                                    *)
(***************************************************************************)
\* The registry, lookup and dispatch.
Next ==
    \/ \E e \in Envs : PushCtx(e)
    \/ PopCtx
    \/ \E e \in Envs : DestroyEnv(e)
    \/ \E e \in Envs, id \in ThemeIds, cls \in Classes : InstanciateTheme(e, id, cls)
    \/ \E e \in Envs, event \in Events : ControllerEmit(e, event)
    \/ \E a \in ThemeIds \cup Classes, env \in EnvArgs : GetTheme(a, env)

Spec == Init /\ [][Next]_vars

\* The themes the handle and config specifications register: two themes of
\* one environment, and a theme of the other environment under the same id.
HandleThemes == { <<"e1", <<"A">>, K1>>, <<"e1", <<"a", "-", "b">>, K2>>, <<"e2", <<"A">>, K3>> }

\* The config cache.  The contexts are those of one environment (get_config
\* does not read the environment of the context), and the other environment
\* is the one that goes away.
NextConfig ==
    \/ PushCtx("e1")
    \/ PopCtx
    \/ DestroyEnv("e2")
    \/ \E t \in HandleThemes : InstanciateTheme(t[1], t[2], t[3])
    \/ \E self \in AllThemes, fresh \in BOOLEAN : GetConfig(self, fresh)

SpecConfig == Init /\ [][NextConfig]_vars

\* The other operations of a handle.
NextHandle ==
    \/ \E e \in Envs : PushCtx(e)
    \/ PopCtx
    \/ \E e \in Envs : DestroyEnv(e)
    \/ \E t \in HandleThemes : InstanciateTheme(t[1], t[2], t[3])
    \/ \E self \in AllThemes : Version(self)
    \/ \E self \in AllThemes : Path(self)
    \/ \E self \in AllThemes : ImportName(self)
    \/ \E self \in AllThemes : GetLektorConfig(self)
    \/ \E self \in AllThemes : ToJson(self)
    \/ \E self \in AllThemes, event \in ThemeEvents : ThemeEmit(self, event)

SpecHandle == Init /\ [][NextHandle]_vars

\* Discovery and the bootstrap sequence.
NextInit ==
    \/ \E eps \in EntryPointLists : LoadThemes(eps)
    \/ \E eps \in EntryPointLists : InitializeThemes("e1", eps)
    \/ \E id \in ThemeIds, cls \in Classes : InstanciateTheme("e1", id, cls)

SpecInit == Init /\ [][NextInit]_vars

\* What discovery yields in the specification of all operations: nothing,
\* one extension, two extensions, and an extension whose constructor raises.
BootLists ==
    { << >>,
      <<EntryPoint(<<"A">>, Lektor_a, K1)>>,
      <<EntryPoint(<<"A">>, Lektor_a, K1), EntryPoint(<<"a", "-", "b">>, Lektor_a_b, K2)>>,
      <<EntryPoint(<<"A">>, Lektor_a, K1), EntryPoint(<<"a", "-", "b">>, Lektor_a_b, K4)>> }

\* The themes instanciate_theme is called with directly there: an id the
\* discovery also yields with the same class, and one it yields with
\* another class.
DirectThemes == { << <<"A">>, K1 >>, << <<"a", "-", "b">>, K3 >> }

\* Every operation that reads or writes the registry of one environment:
\* instanciate_theme, initialize_themes, get_theme, emit (which iterates
\* iter_themes) and get_config, with and without a build context.
NextAll ==
    \/ PushCtx("e1")
    \/ PopCtx
    \/ DestroyEnv("e1")
    \/ \E t \in DirectThemes : InstanciateTheme("e1", t[1], t[2])
    \/ \E eps \in BootLists : InitializeThemes("e1", eps)
    \/ \E a \in ThemeIds \cup Classes, env \in {None, <<"e1">>} : GetTheme(a, env)
    \/ \E event \in Events : ControllerEmit("e1", event)
    \/ \E self \in AllThemes : GetConfig(self, FALSE)

SpecAll == Init /\ [][NextAll]_vars

(***************************************************************************)
(* The claims.                                                             *)
(***************************************************************************)
\* The ids of the <<"call", id>> entries of a trace, in order.
Called(trace) == [i \in 1..Len(trace) |-> trace[i][2]]

NoRepeat(seq) == \A i, j \in 1..Len(seq) : seq[i] = seq[j] => i = j

\* C1: in every environment the two registry maps form a bijection: every
\* key of themes is the value of exactly one theme_ids_by_class entry, and
\* the entries point to distinct keys of themes.
C1_RegistryBijection ==
    \A e \in Envs :
        /\ \A id \in DOMAIN themes[e] :
               Cardinality({c \in DOMAIN theme_ids_by_class[e] : theme_ids_by_class[e][c] = id}) = 1
        /\ \A c \in DOMAIN theme_ids_by_class[e] : theme_ids_by_class[e][c] \in DOMAIN themes[e]
        /\ \A c, d \in DOMAIN theme_ids_by_class[e] :
               theme_ids_by_class[e][c] = theme_ids_by_class[e][d] => c = d

\* C2: for every id registered in an environment, get_theme(id) returns a
\* handle whose id is that id, and get_theme(the class of that handle) returns
\* that same handle.
C2_LookupByIdAndByClass ==
    \A e \in Envs : \A id \in DOMAIN themes[e] :
        alive[e] =>
            LET byId == get_theme(id, <<e>>) IN
            /\ byId.status = "ok"
            /\ byId.value.id = id
            /\ get_theme(byId.value.cls, <<e>>).status = "ok"
            /\ get_theme(byId.value.cls, <<e>>).value = byId.value

\* C3: instanciate_theme with an id that is already a key of the themes of
\* its (existing) environment raises the already-registered error and leaves
\* themes and theme_ids_by_class exactly as they were.
C3_DuplicateIdRejected ==
    [][ ( /\ ret'.op = "instanciate_theme"
          /\ alive[ret'.who]
          /\ ret'.arg[1] \in DOMAIN themes[ret'.who] )
        => ( /\ ret'.status = AlreadyRegistered
             /\ themes' = themes
             /\ theme_ids_by_class' = theme_ids_by_class ) ]_vars

\* A duplicate id was rejected although the class differs from the one
\* registered under it.
C3_Witness ==
    /\ ret.op = "instanciate_theme"
    /\ ret.status = AlreadyRegistered
    /\ ret.arg[1] \in DOMAIN themes[ret.who]
    /\ themes[ret.who][ret.arg[1]].cls # ret.arg[2]
    /\ ret.arg[2] \notin DOMAIN theme_ids_by_class[ret.who]

\* The handler name the claim gives for each event in use: 'on_' + event
\* with every '-' replaced by '_'.
C4_HandlerOf(event) ==
    CASE event = <<"s", "e", "t", "u", "p", "-", "e", "n", "v">>
             -> <<"o", "n", "_", "s", "e", "t", "u", "p", "_", "e", "n", "v">>
      [] event = <<"a", "-", "b", "-", "x">>
             -> <<"o", "n", "_", "a", "_", "b", "_", "x">>

\* The ids of the themes of e whose class has an attribute of that name.
C4_Exposing(e, name) == { id \in DOMAIN themes[e] : name \in DOMAIN ClassAttrs(themes[e][id].cls) }

\* C4: an emit that returns, returns a mapping whose keys are exactly the ids
\* of the registered themes that have the handler 'on_' + event with '-'
\* replaced by '_', each mapped to what its handler returned; every such
\* handler was called once, and no other.
C4_EmitMapping ==
    (ret.op = "emit" /\ ret.status = "ok") =>
        LET e == ret.who
            name == C4_HandlerOf(ret.arg[1])
        IN /\ DOMAIN ret.value = C4_Exposing(e, name)
           /\ \A id \in DOMAIN ret.value : ret.value[id] = ClassAttrs(themes[e][id].cls)[name].value
           /\ NoRepeat(Called(ret.trace))
           /\ { Called(ret.trace)[i] : i \in 1..Len(ret.trace) } = C4_Exposing(e, name)

\* Of two registered themes one had the handler and the other was skipped.
C4_Witness ==
    /\ ret.op = "emit"
    /\ ret.status = "ok"
    /\ ret.arg[1] = <<"a", "-", "b", "-", "x">>
    /\ Cardinality(DOMAIN themes[ret.who]) = 2
    /\ Cardinality(DOMAIN ret.value) = 1

\* C5: within one build context, all get_config(fresh=False) calls on one
\* handle returned the identical object.
C5_CachedConfigIdentity ==
    \A r1, r2 \in cfgLog :
        ( /\ r1.cid # 0
          /\ r1.cid = r2.cid
          /\ r1.theme = r2.theme
          /\ ~r1.fresh
          /\ ~r2.fresh )
        => r1.cfg.oid = r2.cfg.oid

\* A non-fresh call returned the object built first, after a later object
\* had been built by a fresh call in the same context.
C5_Witness ==
    /\ ret.op = "get_config"
    /\ ret.status = "ok"
    /\ ret.arg = FALSE
    /\ HasCtx
    /\ ret.value.oid = 1
    /\ \E r \in cfgLog : r.cid = get_ctx.cid /\ r.fresh /\ r.cfg.oid = 2 /\ r.theme = ret.who

\* The objects held by the caches of the build contexts.
CachedOids ==
    UNION { IF ConfigsNamespace \in DOMAIN ctxStack[i].cache
            THEN { ctxStack[i].cache[ConfigsNamespace][k].oid :
                       k \in DOMAIN ctxStack[i].cache[ConfigsNamespace] }
            ELSE {} : i \in 1..Len(ctxStack) }

\* C6: get_config(fresh=True), and get_config without an active build
\* context, leaves the cache of every build context unchanged, and what it
\* returns is a new object: none returned before and none held by a cache.
C6_FreshBypassesCache ==
    [][ ( /\ ret'.op = "get_config"
          /\ (ret'.arg = TRUE \/ ~HasCtx) )
        => ( /\ \A i \in 1..Len(ctxStack) : ctxStack'[i].cache = ctxStack[i].cache
             /\ Len(ctxStack') = Len(ctxStack)
             /\ ret'.status = "ok" =>
                    /\ ret'.value.oid \notin { r.cfg.oid : r \in cfgLog }
                    /\ ret'.value.oid \notin CachedOids ) ]_vars

\* A fresh call in a context whose cache holds another object for that id.
C6_Witness ==
    /\ ret.op = "get_config"
    /\ ret.status = "ok"
    /\ ret.arg = TRUE
    /\ HasCtx
    /\ ConfigsNamespace \in DOMAIN get_ctx.cache
    /\ ret.who.id \in DOMAIN get_ctx.cache[ConfigsNamespace]
    /\ get_ctx.cache[ConfigsNamespace][ret.who.id].oid # ret.value.oid

HandleOps == {"version", "path", "import_name", "get_lektor_config", "to_json",
              "Theme.emit", "get_config"}

\* C7: once its environment is gone, every operation of a handle raises
\* 'Environment went away'.
C7_HandleFailsAfterEnvGone ==
    (ret.op \in HandleOps /\ ~alive[ret.who.env]) => ret.status = EnvWentAway

\* The claim's test on one candidate: the distribution name, lowercased,
\* differs from 'lektor-' + the entry name, lowercased.
C8_LowerCase(c) == IF c = "A" THEN "a" ELSE IF c = "B" THEN "b" ELSE IF c = "L" THEN "l" ELSE c

C8_Differs(ep) ==
    ~ ( /\ Len(ep.project_name) = Len(ep.name) + 7
        /\ \A i \in 1..7 :
               C8_LowerCase(ep.project_name[i]) = <<"l", "e", "k", "t", "o", "r", "-">>[i]
        /\ \A i \in 1..Len(ep.name) :
               C8_LowerCase(ep.project_name[i + 7]) = C8_LowerCase(ep.name[i]) )

C8_Bad(eps) == { i \in 1..Len(eps) : C8_Differs(eps[i]) }

C8_FirstBad(eps) == CHOOSE i \in C8_Bad(eps) : \A j \in C8_Bad(eps) : i <= j

\* C8: load_themes raises the naming-mismatch error exactly when a
\* candidate's names differ; it has then called the loaders of the candidates
\* before the first such candidate and no other, and returns no mapping.  An
\* initialize_themes that hits the error calls no constructor and no handler
\* and leaves the registry as it was.
C8_MismatchAbortsDiscovery ==
    [][ /\ ret'.op = "load_themes" =>
            IF C8_Bad(ret'.arg) = {}
            THEN ret'.status = "ok"
            ELSE /\ ret'.status = MismatchingName
                 /\ ret'.value = None
                 /\ ret'.trace = [i \in 1..(C8_FirstBad(ret'.arg) - 1) |-> <<"load", ret'.arg[i].name>>]
        /\ (ret'.op = "initialize_themes" /\ C8_Bad(ret'.arg[1]) # {}) =>
                 /\ ret'.status = MismatchingName
                 /\ ret'.trace = [i \in 1..(C8_FirstBad(ret'.arg[1]) - 1) |->
                                      <<"load", ret'.arg[1][i].name>>]
                 /\ themes' = themes
                 /\ theme_ids_by_class' = theme_ids_by_class
        /\ (ret'.op = "initialize_themes" /\ C8_Bad(ret'.arg[1]) = {}) =>
                 ret'.status # MismatchingName ]_vars

\* An initialize_themes whose second candidate is the mismatching one: the
\* first candidate's loader ran, and nothing was registered.
C8_Witness ==
    /\ ret.op = "initialize_themes"
    /\ ret.status = MismatchingName
    /\ Len(ret.arg[1]) = 2
    /\ ret.arg[1][2].project_name = <<"w", "e", "i", "r", "d">>
    /\ Len(ret.trace) = 1
    /\ themes[ret.who] = << >>

\* C9: get_theme without an environment and without an active context
\* raises the context-unavailable error; otherwise it consults the
\* environment passed, or else the active context's, translates a class
\* registered there to its id, and returns the theme under that id or raises
\* the not-found error when that id is no key of themes.
C9_Lookup ==
    ret.op = "get_theme" =>
        IF ret.who = None /\ ctxStack = << >>
        THEN ret.status = CtxUnavailable
        ELSE LET e == IF ret.who = None THEN ctxStack[Len(ctxStack)].env ELSE ret.who[1]
                 tid == IF ret.arg \in DOMAIN theme_ids_by_class[e]
                        THEN theme_ids_by_class[e][ret.arg] ELSE ret.arg
             IN IF tid \in DOMAIN themes[e]
                THEN ret.status = "ok" /\ ret.value = themes[e][tid]
                ELSE ret.status = ThemeNotFound

\* A lookup by class in an explicitly passed environment succeeded while a
\* context of another environment, where that class is not registered, was
\* active.
C9_Witness ==
    /\ ret.op = "get_theme"
    /\ ret.status = "ok"
    /\ ret.arg \in Classes
    /\ ret.who # None
    /\ ctxStack # << >>
    /\ ctxStack[Len(ctxStack)].env # ret.who[1]
    /\ ret.arg \notin DOMAIN theme_ids_by_class[ctxStack[Len(ctxStack)].env]

\* Whether calling the handler `name` of the theme under id raises.
C10_Raises(e, id, name) ==
    /\ name \in DOMAIN ClassAttrs(themes[e][id].cls)
    /\ ClassAttrs(themes[e][id].cls)[name].raises

\* C10: an emit raises exactly when a handler it reaches raises; it then
\* returns no mapping, and the handlers called are those of the themes up to
\* and including the first failing one in iteration order: none after it.
C10_HandlerFailureAborts ==
    (ret.op = "emit" /\ alive[ret.who]) =>
        LET e == ret.who
            name == C4_HandlerOf(ret.arg[1])
            order == ret.arg[2]
            failing == { k \in 1..Len(order) : C10_Raises(e, order[k], name) }
        IN IF failing = {}
           THEN ret.status = "ok"
           ELSE LET first == CHOOSE k \in failing : \A j \in failing : k <= j IN
                /\ ret.status = HandlerFailed
                /\ ret.value = None
                /\ Called(ret.trace)[Len(ret.trace)] = order[first]
                /\ \A k \in 1..Len(order) :
                       (k > first) => \A i \in 1..Len(ret.trace) : Called(ret.trace)[i] # order[k]

\* The first theme's handler failed and the second theme, which has the
\* handler, was not called.
C10_Witness ==
    /\ ret.op = "emit"
    /\ ret.status = HandlerFailed
    /\ Len(ret.arg[2]) = 2
    /\ C10_Raises(ret.who, ret.arg[2][1], on_setup_env)
    /\ on_setup_env \in DOMAIN ClassAttrs(themes[ret.who][ret.arg[2][2]].cls)
    /\ Len(ret.trace) = 1
\* The entries of one kind of a trace, and the ids they name.
Entries(trace, kind) == { i \in 1..Len(trace) : trace[i][1] = kind }

IdsOf(trace, kind) == { trace[i][2] : i \in Entries(trace, kind) }

\* The names a discovery yields: the claim's (id, type) pairs are the entry
\* names, each with the class its last candidate loads.
C11_Names(eps) == { eps[i].name : i \in 1..Len(eps) }

C11_ClassOf(eps, name) ==
    eps[CHOOSE i \in 1..Len(eps) : eps[i].name = name /\ \A j \in (i + 1)..Len(eps) : eps[j].name # name].cls

C11_HasSetup(cls) == <<"o", "n", "_", "s", "e", "t", "u", "p", "_", "e", "n", "v">> \in DOMAIN ClassAttrs(cls)

\* C11 as stated, where discovery and every instanciate_theme succeeded:
\* every extension the initialize_themes newly registered that has the setup
\* handler receives the setup event exactly once.
C11_EveryNewThemeReceivesSetup ==
    (ret.op = "initialize_themes"
        /\ ret.status \notin {MismatchingName, AlreadyRegistered, CtorFailed}) =>
        \A id \in IdsOf(ret.trace, "new") :
            C11_HasSetup(themes[ret.who][id].cls) =>
                Cardinality({ i \in Entries(ret.trace, "call") : ret.trace[i][2] = id }) = 1

\* C11, amended: initialize_themes calls the loaders, then the constructors,
\* then the handlers, in that order; a handler runs only after every
\* discovered extension is registered; no extension receives the setup event
\* twice; and when initialize_themes returns, every discovered extension is
\* registered with its class and every registered extension that has the
\* handler received the event exactly once.
C11_SetupAfterRegistration ==
    ret.op = "initialize_themes" =>
        LET e == ret.who
            eps == ret.arg[1]
            t == ret.trace
        IN /\ \A i, j \in 1..Len(t) :
                  i < j => /\ ~(t[i][1] = "call" /\ t[j][1] \in {"new", "load"})
                           /\ ~(t[i][1] = "new" /\ t[j][1] = "load")
           /\ \A i, j \in Entries(t, "call") : t[i][2] = t[j][2] => i = j
           /\ \A i, j \in Entries(t, "new") : t[i][2] = t[j][2] => i = j
           /\ Entries(t, "call") # {} =>
                  /\ IdsOf(t, "new") = C11_Names(eps)
                  /\ C11_Names(eps) \subseteq DOMAIN themes[e]
           /\ ret.status = "ok" =>
                  /\ IdsOf(t, "new") = C11_Names(eps)
                  /\ \A n \in C11_Names(eps) :
                         /\ n \in DOMAIN themes[e]
                         /\ themes[e][n].cls = C11_ClassOf(eps, n)
                  /\ IdsOf(t, "call") = { id \in DOMAIN themes[e] : C11_HasSetup(themes[e][id].cls) }
                  /\ DOMAIN ret.value = IdsOf(t, "call")

\* Two extensions were discovered and registered, and the one that has the
\* setup handler then received the event.
C11_Witness ==
    /\ ret.op = "initialize_themes"
    /\ ret.status = "ok"
    /\ Cardinality(IdsOf(ret.trace, "new")) = 2
    /\ Cardinality(IdsOf(ret.trace, "call")) = 1
    /\ Len(ret.trace) = 5

\* C12: an initialize_themes either gets through discovery and every
\* instanciate_theme and leaves every discovered extension registered, or
\* fails in one of them, and then calls no handler and leaves the registry as
\* it was: none of the batch's extensions is registered.
C12_AllOrNothing ==
    [][ ret'.op = "initialize_themes" =>
            \/ /\ ret'.status \notin {MismatchingName, AlreadyRegistered, CtorFailed}
               /\ C11_Names(ret'.arg[1]) \subseteq DOMAIN themes'[ret'.who]
            \/ /\ ret'.status \in {MismatchingName, AlreadyRegistered, CtorFailed}
               /\ themes' = themes
               /\ theme_ids_by_class' = theme_ids_by_class
               /\ Entries(ret'.trace, "call") = {} ]_vars
\* C13: once themes[id] holds a handle, every later state of the environment
\* holds that same handle under that id, whatever operation is taken,
\* successful or failed.
C13_HandlesNeverReplaced ==
    [][ \A e \in Envs : \A id \in DOMAIN themes[e] :
            /\ id \in DOMAIN themes'[e]
            /\ themes'[e][id] = themes[e][id] ]_vars

\* initialize_themes ran on a registry that already held a handle under an
\* id the discovery yields with another class, and failed on it; the handle
\* registered first is still there, beside the one the run added.
C13_Witness ==
    /\ ret.op = "initialize_themes"
    /\ ret.status = AlreadyRegistered
    /\ IdsOf(ret.trace, "new") = { <<"A">> }
    /\ <<"a", "-", "b">> \in DOMAIN themes["e1"]
    /\ themes["e1"][<<"a", "-", "b">>].cls = K3
\* The path of a handle's config file: configs/<id>.ini under the root of
\* its environment.
C14_Path(self) == <<"root_path of " \o self.env, "configs", self.id \o <<".", "i", "n", "i">> >>

\* C14: every get_config that returns while a build context is active adds
\* the handle's config file path to the dependencies of that context and
\* leaves those of the contexts below alone, on a cache hit, on a miss and
\* with fresh=True alike; without a build context it records nothing.
C14_DependencyRecorded ==
    [][ (ret'.op = "get_config" /\ ret'.status = "ok") =>
            /\ Len(ctxStack') = Len(ctxStack)
            /\ \A i \in 1..Len(ctxStack) :
                   ctxStack'[i].deps = IF i = Len(ctxStack)
                                       THEN ctxStack[i].deps \cup {C14_Path(ret'.who)}
                                       ELSE ctxStack[i].deps ]_vars

\* A get_config returned an object the active context had cached earlier,
\* for a second theme of the context, and the paths of both are among the
\* dependencies of the context.
C14_Witness ==
    /\ ret.op = "get_config"
    /\ ret.status = "ok"
    /\ ret.arg = FALSE
    /\ HasCtx
    /\ ret.value.oid < nextCfg
    /\ C14_Path(ret.who) \in get_ctx.deps
    /\ Cardinality(get_ctx.deps) = 2
\* C15: an object get_config returned under one build context is returned
\* under no other context and not without a context, so a context that
\* ended, or that is below the active one, never supplies an entry, and the
\* first get_config of a new context builds a new object.
C15_EntriesScopedToContext ==
    \A r1, r2 \in cfgLog : r1.cfg.oid = r2.cfg.oid => r1.cid = r2.cid

\* A theme's config was cached in one context; that context ended, and the
\* non-fresh get_config of the same theme in the next context returned
\* another object.
C15_Witness ==
    /\ ret.op = "get_config"
    /\ ret.status = "ok"
    /\ ret.arg = FALSE
    /\ Len(ctxStack) = 1
    /\ ActiveCid = 2
    /\ \E r \in cfgLog : /\ r.cid = 1
                         /\ r.theme = ret.who
                         /\ ~r.fresh
                         /\ r.cfg.oid # ret.value.oid
\* The event name id + '-' + event, written out for each id and event.
C16_Event(id, event) ==
    CASE id = <<"A">> /\ event = <<"x">> -> <<"A", "-", "x">>
      [] id = <<"A">> /\ event = <<"e", "n", "v">> -> <<"A", "-", "e", "n", "v">>
      [] id = <<"a", "-", "b">> /\ event = <<"x">> -> <<"a", "-", "b", "-", "x">>
      [] id = <<"a", "-", "b">> /\ event = <<"e", "n", "v">> -> <<"a", "-", "b", "-", "e", "n", "v">>

\* The handler name of each: 'on_' + the event name with every '-' as '_'.
C16_HandlerOf(id, event) ==
    CASE id = <<"A">> /\ event = <<"x">> -> <<"o", "n", "_", "A", "_", "x">>
      [] id = <<"A">> /\ event = <<"e", "n", "v">> -> <<"o", "n", "_", "A", "_", "e", "n", "v">>
      [] id = <<"a", "-", "b">> /\ event = <<"x">> -> <<"o", "n", "_", "a", "_", "b", "_", "x">>
      [] id = <<"a", "-", "b">> /\ event = <<"e", "n", "v">>
             -> <<"o", "n", "_", "a", "_", "b", "_", "e", "n", "v">>

\* C16: Theme.emit(event) of a handle whose environment is there is the
\* controller's emit of id + '-' + event: it calls the handler of that name
\* on every registered theme that has it, the emitting theme or not, and
\* returns the mapping from their ids to what they returned.
C16_ThemeEmitIsBroadcast ==
    (ret.op = "Theme.emit" /\ alive[ret.who.env]) =>
        LET e == ret.who.env
            name == C16_HandlerOf(ret.who.id, ret.arg[1])
            broadcast == emit(themes[e], ret.arg[2], C16_Event(ret.who.id, ret.arg[1]))
        IN /\ ret.status = broadcast.status
           /\ ret.value = broadcast.value
           /\ ret.trace = broadcast.trace
           /\ ret.status = "ok"
           /\ DOMAIN ret.value = C4_Exposing(e, name)
           /\ \A id \in DOMAIN ret.value : ret.value[id] = ClassAttrs(themes[e][id].cls)[name].value
           /\ { Called(ret.trace)[i] : i \in 1..Len(ret.trace) } = C4_Exposing(e, name)
           /\ NoRepeat(Called(ret.trace))

\* The theme 'a-b', which has no handler, emitted 'x', and the handler
\* on_a_b_x of the other theme of the environment was called.
C16_Witness ==
    /\ ret.op = "Theme.emit"
    /\ ret.status = "ok"
    /\ ret.who.id = <<"a", "-", "b">>
    /\ ret.arg[1] = <<"x">>
    /\ DOMAIN ret.value = { <<"A">> }
    /\ Called(ret.trace) = << <<"A">> >>
\* The environment a get_theme looked in: the one passed, or the one of the
\* active build context.
C17_EnvOf(env) == IF env = <<"None">> THEN ctxStack[Len(ctxStack)].env ELSE env[1]

\* C17: every entry of theme_ids_by_class names a key of themes, and the
\* theme under that key is an instance of the entry's class; so get_theme by
\* a class that has an entry returns a theme of that class and never raises
\* the not-found error.
C17_ClassEntriesPointIntoThemes ==
    /\ \A e \in Envs : \A c \in DOMAIN theme_ids_by_class[e] :
           /\ theme_ids_by_class[e][c] \in DOMAIN themes[e]
           /\ themes[e][theme_ids_by_class[e][c]].cls = c
    /\ ( /\ ret.op = "get_theme"
         /\ ret.status # CtxUnavailable
         /\ ret.arg \in DOMAIN theme_ids_by_class[C17_EnvOf(ret.who)] )
       => ( /\ ret.status = "ok"
            /\ ret.value.cls = ret.arg
            /\ ret.value.env = C17_EnvOf(ret.who) )

\* A class was instantiated under two ids, so that it has one entry for two
\* themes, and get_theme by that class returned one of them.
C17_Witness ==
    /\ ret.op = "get_theme"
    /\ ret.status = "ok"
    /\ ret.arg = K1
    /\ Cardinality(DOMAIN themes[C17_EnvOf(ret.who)]) = 2
    /\ DOMAIN theme_ids_by_class[C17_EnvOf(ret.who)] = {K1}
\* C18: get_theme, emit (which iterates the themes) and get_config leave
\* themes and theme_ids_by_class as they are, and so does an
\* instanciate_theme that raises; one that returns adds exactly one key to
\* the themes of its environment, the id it was given, and sets the entry of
\* its class; initialize_themes changes them by its instanciate_theme calls
\* only, one key for each that returned.
C18_OnlyInstanciateModifies ==
    [][ LET op == ret'.op
            same == themes' = themes /\ theme_ids_by_class' = theme_ids_by_class
        IN /\ op \in {"get_theme", "emit", "get_config", "push", "pop", "destroy"} => same
           /\ (op = "instanciate_theme" /\ ret'.status # "ok") => same
           /\ (op = "instanciate_theme" /\ ret'.status = "ok") =>
                  LET e == ret'.who
                      theme_id == ret'.arg[1]
                  IN /\ theme_id \notin DOMAIN themes[e]
                     /\ DOMAIN themes'[e] = DOMAIN themes[e] \cup {theme_id}
                     /\ \A k \in DOMAIN themes[e] : themes'[e][k] = themes[e][k]
                     /\ \A x \in Envs \ {e} : themes'[x] = themes[x]
                     /\ \A x \in Envs \ {e} : theme_ids_by_class'[x] = theme_ids_by_class[x]
                     /\ DOMAIN theme_ids_by_class'[e] = DOMAIN theme_ids_by_class[e] \cup {ret'.arg[2]}
                     /\ \A c \in DOMAIN theme_ids_by_class[e] \ {ret'.arg[2]} :
                            theme_ids_by_class'[e][c] = theme_ids_by_class[e][c]
           /\ op = "initialize_themes" =>
                  LET e == ret'.who IN
                  /\ DOMAIN themes'[e] \ DOMAIN themes[e] = IdsOf(ret'.trace, "new")
                  /\ DOMAIN themes[e] \subseteq DOMAIN themes'[e]
                  /\ Cardinality(Entries(ret'.trace, "new")) = Cardinality(IdsOf(ret'.trace, "new"))
                  /\ (IdsOf(ret'.trace, "new") = {} => same) ]_vars

\* An instanciate_theme returned on a registry that held a theme, and the
\* registry now holds two; a get_config had run before.
C18_Witness ==
    /\ ret.op = "instanciate_theme"
    /\ ret.status = "ok"
    /\ Cardinality(DOMAIN themes[ret.who]) = 2
    /\ Cardinality(DOMAIN theme_ids_by_class[ret.who]) = 2
    /\ cfgLog # {}
\* The entries of the config cache of a build context, by id.
C19_Entries(ctx) ==
    IF "lektor.themesystem:configs" \in DOMAIN ctx.cache
    THEN ctx.cache["lektor.themesystem:configs"]
    ELSE << >>

\* C19: every object get_config returned for a handle was built for a handle
\* of that id (it is the IniFile of configs/<id>.ini), and a get_config on a
\* handle leaves the cache entries of every other id, in every build
\* context, as they were.
C19_CacheIsolatedPerId ==
    [][ /\ \A r \in cfgLog' : r.cfg.filename[3] = r.theme.id \o <<".", "i", "n", "i">>
        /\ ret'.op = "get_config" =>
               /\ Len(ctxStack') = Len(ctxStack)
               /\ \A i \in 1..Len(ctxStack) :
                      \A id \in ThemeIds \ {ret'.who.id} :
                          /\ id \in DOMAIN C19_Entries(ctxStack'[i]) <=> id \in DOMAIN C19_Entries(ctxStack[i])
                          /\ id \in DOMAIN C19_Entries(ctxStack[i]) =>
                                 C19_Entries(ctxStack'[i])[id] = C19_Entries(ctxStack[i])[id] ]_vars

\* The cache of the active context held the entry of one id, and a
\* get_config on a handle of the other id built and cached its own object
\* beside it.
C19_Witness ==
    /\ ret.op = "get_config"
    /\ ret.status = "ok"
    /\ ret.arg = FALSE
    /\ HasCtx
    /\ DOMAIN C19_Entries(get_ctx) = ThemeIds
    /\ ret.value.oid = nextCfg
    /\ C19_Entries(get_ctx)[ret.who.id] = ret.value
    /\ \A id \in ThemeIds \ {ret.who.id} : C19_Entries(get_ctx)[id].oid < ret.value.oid
====
